---- MODULE Spec2Model ----
(***************************************************************************)
(* Email worker of the booking system: the Redis priority/scheduled queue, *)
(* the job store, the worker's processing of one job, the provider chain   *)
(* and the retry controller.                                               *)
(*                                                                         *)
(* Time is counted in ticks; TicksPerSecond ticks make one second, so that *)
(* time.Now().Unix() (whole seconds) can be told apart from the instant.   *)
(***************************************************************************)
EXTENDS Integers, Sequences, FiniteSets, TLC

(***************************************************************************)
(* Bounds of the model.                                                    *)
(***************************************************************************)
TicksPerSecond == 2
StartTime == 20000
QMaxTicks == 1
SMaxTicks == 2
QMaxJobs == 4
SMaxJobs == 2
MaxAhead == 1
LMaxJobs == 1
LMaxRetry == 2
LMaxMinutes == 1
LFineTicks == 1
HistMaxSends == 4

(***************************************************************************)
(* Program constants.                                                      *)
(***************************************************************************)
PRIORITY_LOW == 0
PRIORITY_NORMAL == 1
PRIORITY_HIGH == 2
PRIORITY_URGENT == 3
PriorityWeight == 1000
DefaultMaxRetries == 3
SecondsPerMinute == 60

Priorities == {PRIORITY_LOW, PRIORITY_NORMAL, PRIORITY_HIGH, PRIORITY_URGENT}
NoTime == 0
QJobIds == 1..QMaxJobs

VARIABLES
    now,        \* the instant, in ticks
    queue,      \* the Redis sorted set <queueName>: the immediate space
    scheduled,  \* the Redis sorted set <queueName>:scheduled
    consumed,   \* history: the jobs Consume has returned, in order
    enq,        \* history: how and when each job id was first enqueued
    lastOp,     \* history: the queue call made last
    lastReady,  \* history: the jobs the last ProcessScheduledJobs call read as ready
    jobs,       \* the email_jobs table
    controller, \* which retry path the worker is built with
    pc,         \* each worker's position in its loop
    wjob,       \* each worker's copy of the job it consumed
    wready,     \* each worker's list of ready scheduled jobs still to move
    sendres,    \* each worker's result of the provider chain
    hist,       \* history: per job, enqueue calls, hand-outs and sends
    tracking,   \* the email_tracking table: per job, the record's status
    render      \* the template engine's call: pattern, variables and result

qvars == <<now, queue, scheduled, consumed, enq, lastOp, lastReady>>
lvars == <<jobs, controller, render, pc, wjob, wready, sendres, hist, tracking>>
vars == <<now, queue, scheduled, consumed, enq, lastOp, lastReady,
          jobs, controller, render, pc, wjob, wready, sendres, hist, tracking>>

(***************************************************************************)
(* models.EmailJob as the queue serializes it (json.Marshal): the fields   *)
(* the queue and the retry controller read.  The id is a random UUID; the  *)
(* model's id is its rank in the lexicographic order of the JSON text,     *)
(* which starts with the "id" field.                                       *)
(***************************************************************************)
NewEmailJob(id, recipientEmail) ==
    [id |-> id, recipient_email |-> recipientEmail, template_id |-> "",
     priority |-> PRIORITY_LOW, retry_count |-> 0,
     max_retries |-> DefaultMaxRetries, scheduled_at |-> NoTime]

\* The recipient of a well-formed request.
Recipient == "a@example.com"

SetTemplate(job, templateID) == [job EXCEPT !.template_id = templateID]

SetPriority(job, priority) == [job EXCEPT !.priority = priority]

SetScheduledAt(job, scheduledAt) == [job EXCEPT !.scheduled_at = scheduledAt]

\* time.Time.Unix(): whole seconds, the fraction is dropped.
Unix(t) == t \div TicksPerSecond

(***************************************************************************)
(* Redis sorted sets: a set of [member, score] with one entry per member,  *)
(* ordered by score and, for equal scores, by the member's bytes.          *)
(***************************************************************************)
\* The rank of a template id in the order of its text.
TemplateRank(templateID) ==
    IF templateID = "" THEN 0 ELSE IF templateID = "missing" THEN 1
    ELSE IF templateID = "retired" THEN 2 ELSE 3

\* The rank of a recipient in the order of its text.
RecipientRank(recipientEmail) == IF recipientEmail = "" THEN 0 ELSE 1

MemberKey(m) ==
    <<m.id, RecipientRank(m.recipient_email), TemplateRank(m.template_id), m.priority,
      m.retry_count, m.max_retries, m.scheduled_at>>

RECURSIVE LexLess(_, _)
LexLess(a, b) ==
    IF a = <<>> \/ b = <<>> THEN FALSE
    ELSE IF Head(a) # Head(b) THEN Head(a) < Head(b)
    ELSE LexLess(Tail(a), Tail(b))

MemberLess(a, b) == LexLess(MemberKey(a), MemberKey(b))

\* A ZADD that adds an entry and keeps an older entry of the same member.
ZAddAppends(z, m, s) == z \cup {[member |-> m, score |-> s]}

ZAdd(z, m, s) == {e \in z : e.member # m} \cup {[member |-> m, score |-> s]}

ZRem(z, m) == {e \in z : e.member # m}

ZCard(z) == Cardinality(z)

ZBefore(a, b) ==
    \/ a.score < b.score
    \/ a.score = b.score /\ MemberLess(a.member, b.member)

ZMin(z) == CHOOSE e \in z : \A f \in z \ {e} : ZBefore(e, f)

RECURSIVE ZSorted(_)
ZSorted(z) == IF z = {} THEN <<>> ELSE <<ZMin(z).member>> \o ZSorted(z \ {ZMin(z)})

ZRangeByScore(z, lo, hi) == ZSorted({e \in z : lo <= e.score /\ e.score <= hi})

ZMembers(z) == {e.member : e \in z}

(***************************************************************************)
(* RedisQueue.                                                             *)
(***************************************************************************)
\* A score with the priority term's sign turned: low priorities would lead.
PublishScoreLowFirst(t, job) ==
    IF job.priority > 0 THEN Unix(t) + job.priority * PriorityWeight ELSE Unix(t)

\* Publish: the score of a job added to the main queue at instant t.
PublishScore(t, job) ==
    IF job.priority > 0 THEN Unix(t) - job.priority * PriorityWeight ELSE Unix(t)

Publish(q, job, t) == ZAdd(q, job, PublishScore(t, job))

\* A PublishScheduled that keys the job by nothing: every entry is due at once.
PublishScheduledUnkeyed(s, job, scheduledAt) == ZAdd(s, job, 0)

PublishScheduled(s, job, scheduledAt) == ZAdd(s, job, Unix(scheduledAt))

\* The jobs ProcessScheduledJobs reads as ready at instant t.
ReadyScheduled(s, t) == ZRangeByScore(s, 0, Unix(t))

RECURSIVE MoveReady(_, _, _, _)
RECURSIVE MoveReadyKeepsScheduled(_, _, _, _)
\* A loop that publishes the ready jobs but leaves them in the scheduled set.
MoveReadyKeepsScheduled(ready, q, s, t) ==
    IF ready = <<>> THEN [queue |-> q, scheduled |-> s]
    ELSE MoveReadyKeepsScheduled(Tail(ready), Publish(q, Head(ready), t), s, t)

\* The loop of ProcessScheduledJobs run without interruption.
MoveReady(ready, q, s, t) ==
    IF ready = <<>> THEN [queue |-> q, scheduled |-> s]
    ELSE MoveReady(Tail(ready), Publish(q, Head(ready), t), ZRem(s, Head(ready)), t)

ProcessScheduledJobs(q, s, t) == MoveReady(ReadyScheduled(s, t), q, s, t)

(***************************************************************************)
(* The job store: the email_jobs table, one row per job id.                *)
(***************************************************************************)
Workers == {"w1", "w2"}

NoRow ==
    [status |-> "absent", email |-> "", template_id |-> "", priority |-> 0, retry_count |-> 0,
     max_retries |-> 0, error_message |-> "", sent_at |-> NoTime, scheduled_at |-> NoTime,
     updated_at |-> NoTime]

NoJob == [id |-> 0, recipient_email |-> "", template_id |-> "", priority |-> 0, retry_count |-> 0, max_retries |-> 0,
          scheduled_at |-> NoTime]

NoResult == [ok |-> FALSE, provider |-> "", tried |-> <<>>, logged |-> <<>>,
             err |-> "", outcome |-> <<>>]

\* Create: INSERT of a new row; retry_count, error_message and sent_at take
\* the column defaults, updated_at is the insert instant.
Create(table, job, t) ==
    [table EXCEPT ![job.id] =
        [status |-> "pending", email |-> job.recipient_email,
         template_id |-> job.template_id,
         priority |-> job.priority, retry_count |-> 0,
         max_retries |-> job.max_retries, error_message |-> "",
         sent_at |-> NoTime, scheduled_at |-> job.scheduled_at,
         updated_at |-> t]]

\* UpdateStatus: UPDATE ... SET status, error_message, sent_at, updated_at
\* WHERE id; the row's present status is not looked at.  No row: "email job
\* not found".
UpdateStatus(table, id, status, errorMessage, sentAt, t) ==
    IF table[id].status = "absent" THEN table
    ELSE [table EXCEPT ![id].status = status,
                       ![id].error_message = errorMessage,
                       ![id].sent_at = sentAt,
                       ![id].updated_at = t]

\* IncrementRetryCount: UPDATE ... SET retry_count = retry_count + 1,
\* updated_at WHERE id.
IncrementRetryCount(table, id, t) ==
    IF table[id].status = "absent" THEN table
    ELSE [table EXCEPT ![id].retry_count = @ + 1, ![id].updated_at = t]

\* GetByID, as the job the retry controller re-enqueues.
GetByID(table, id) ==
    [id |-> id, recipient_email |-> table[id].email,
     template_id |-> table[id].template_id,
     priority |-> table[id].priority,
     retry_count |-> table[id].retry_count,
     max_retries |-> table[id].max_retries,
     scheduled_at |-> table[id].scheduled_at]

(***************************************************************************)
(* The template store: the rows of email_templates by name, with their     *)
(* is_active flag, and the templates GetByName finds.                      *)
(***************************************************************************)
StoredTemplates == {"welcome", "retired"}

IsActive(name) == name = "welcome"

\* A GetByName without the is_active condition: every stored row is found.
GetByNameAnyFlag == StoredTemplates

\* GetByName of the service path: WHERE name = $1 AND is_active = true.
Templates == {name \in StoredTemplates : IsActive(name)}

TemplateIds == {"welcome", "missing"}

TemplateNotFound == [NoResult EXCEPT !.err = "template not found"]

(***************************************************************************)
(* The provider chain: sendgrid first, ses as the fallback.                *)
(***************************************************************************)
Providers == {"sendgrid", "ses"}

Outcomes == [Providers -> {"ok", "fail"}]

\* A chain that gives up when the first provider fails.
SendEmailPrimaryOnly(outcome) ==
    IF outcome["sendgrid"] = "ok"
    THEN [ok |-> TRUE, provider |-> "sendgrid", tried |-> <<"sendgrid">>,
          logged |-> <<>>, err |-> "", outcome |-> outcome]
    ELSE [ok |-> FALSE, provider |-> "", tried |-> <<"sendgrid">>,
          logged |-> <<"sendgrid">>, err |-> "all providers failed: sendgrid",
          outcome |-> outcome]

\* A chain that tries the fallback provider before the primary one.
SendEmailFallbackFirst(outcome) ==
    IF outcome["ses"] = "ok"
    THEN [ok |-> TRUE, provider |-> "ses", tried |-> <<"ses">>,
          logged |-> <<>>, err |-> "", outcome |-> outcome]
    ELSE IF outcome["sendgrid"] = "ok"
    THEN [ok |-> TRUE, provider |-> "sendgrid", tried |-> <<"ses", "sendgrid">>,
          logged |-> <<"ses">>, err |-> "", outcome |-> outcome]
    ELSE [ok |-> FALSE, provider |-> "", tried |-> <<"ses", "sendgrid">>,
          logged |-> <<"ses">>, err |-> "all providers failed: sendgrid",
          outcome |-> outcome]

SendEmail(outcome) ==
    IF outcome["sendgrid"] = "ok"
    THEN [ok |-> TRUE, provider |-> "sendgrid", tried |-> <<"sendgrid">>,
          logged |-> <<>>, err |-> "", outcome |-> outcome]
    ELSE IF outcome["ses"] = "ok"
    THEN [ok |-> TRUE, provider |-> "ses", tried |-> <<"sendgrid", "ses">>,
          logged |-> <<"sendgrid">>, err |-> "", outcome |-> outcome]
    ELSE [ok |-> FALSE, provider |-> "", tried |-> <<"sendgrid", "ses">>,
          logged |-> <<"sendgrid">>, err |-> "all providers failed: ses",
          outcome |-> outcome]

\* The errors the fallback provider may return, as the chain wraps them: a
\* refusal or a timeout.
ChainErrors == {SendEmail([p \in Providers |-> "fail"]).err,
                "all providers failed: ses: timeout"}

WithError(result, err) == IF result.ok THEN result ELSE [result EXCEPT !.err = err]

(***************************************************************************)
(* The retry controller.                                                   *)
(***************************************************************************)
RECURSIVE Pow2(_)
Pow2(n) == IF n <= 0 THEN 1 ELSE 2 * Pow2(n - 1)

TicksPerMinute == SecondsPerMinute * TicksPerSecond

\* calculateRetryDelay: 2^retryCount minutes, in ticks.
calculateRetryDelay(retryCount) == Pow2(retryCount) * TicksPerMinute

CanRetry(job) == job.retry_count < job.max_retries

IncrementRetry(job) == [job EXCEPT !.retry_count = @ + 1]

\* ScheduleRetry: the job goes back into the scheduled space, due after the
\* delay.
ScheduleRetry(s, job, delay, t) ==
    PublishScheduled(s, SetScheduledAt(job, t + delay), t + delay)

\* The service path has no scheduler: a job reset to pending is queued again
\* at once.
Requeue(q, job, t) == Publish(q, job, t)

(***************************************************************************)
(* The queue driven by one caller: every call runs to its end before the   *)
(* next one starts.  A new job takes an id no job has used; of the unused  *)
(* ids the lowest or the highest is taken, so that a later job may sort    *)
(* before or after an earlier one.                                         *)
(***************************************************************************)
NotEnqueued == [kind |-> "none", at |-> NoTime]

NoHistory ==
    [enqueues |-> 0, handed |-> 0, sends |-> <<>>, last_error |-> "", cancel |-> "none"]

Unused(ids) == {id \in ids : enq[id].kind = "none"}

FreshIds(ids) ==
    {id \in Unused(ids) :
        (\A o \in Unused(ids) : id <= o) \/ (\A o \in Unused(ids) : id >= o)}

\* No call of the template engine yet.
NoRender == [pattern |-> <<>>, variables |-> <<>>, done |-> FALSE, out |-> "", err |-> ""]

QInit ==
    /\ now = StartTime
    /\ queue = {}
    /\ scheduled = {}
    /\ consumed = <<>>
    /\ enq = [id \in QJobIds |-> NotEnqueued]
    /\ lastOp = "none"
    /\ lastReady = <<>>
    /\ jobs = [id \in QJobIds |-> NoRow]
    /\ controller = "service"
    /\ pc = [w \in Workers |-> "idle"]
    /\ wjob = [w \in Workers |-> NoJob]
    /\ wready = [w \in Workers |-> <<>>]
    /\ sendres = [w \in Workers |-> NoResult]
    /\ hist = [id \in QJobIds |-> NoHistory]
    /\ tracking = [id \in QJobIds |-> "none"]
    /\ render = NoRender

CallPublish(ids, priorities) ==
    \E id \in FreshIds(ids), p \in priorities :
        /\ queue' = Publish(queue, SetPriority(NewEmailJob(id, Recipient), p), now)
        /\ enq' = [enq EXCEPT ![id] = [kind |-> "direct", at |-> now]]
        /\ UNCHANGED <<now, scheduled, consumed>>

CallPublishScheduled(ids, priorities) ==
    \E id \in FreshIds(ids), p \in priorities, d \in 1..MaxAhead :
        /\ scheduled' = PublishScheduled(scheduled,
               SetScheduledAt(SetPriority(NewEmailJob(id, Recipient), p), now + d), now + d)
        /\ enq' = [enq EXCEPT ![id] = [kind |-> "scheduled", at |-> now]]
        /\ UNCHANGED <<now, queue, consumed>>

CallProcessScheduledJobs ==
    /\ queue' = ProcessScheduledJobs(queue, scheduled, now).queue
    /\ scheduled' = ProcessScheduledJobs(queue, scheduled, now).scheduled
    /\ UNCHANGED <<now, consumed, enq>>

\* Consume: ZPopMin of one entry; an empty queue gives ErrQueueEmpty.  The
\* history keeps a job's enqueue instant only while the job waits.
CallConsume ==
    /\ queue # {}
    /\ queue' = queue \ {ZMin(queue)}
    /\ consumed' = Append(consumed, ZMin(queue).member)
    /\ enq' = [enq EXCEPT ![ZMin(queue).member.id].at = NoTime]
    /\ UNCHANGED <<now, scheduled>>

\* A Consume on an empty queue that also clears the scheduled space.
CallConsumeEmptyClears ==
    /\ queue = {}
    /\ scheduled' = {}
    /\ UNCHANGED <<now, queue, consumed, enq>>

CallConsumeEmpty ==
    /\ queue = {}
    /\ UNCHANGED <<now, queue, scheduled, consumed, enq>>

Tick(maxTicks) ==
    /\ now < StartTime + maxTicks
    /\ now' = now + 1
    /\ UNCHANGED <<queue, scheduled, consumed, enq>>

(***************************************************************************)
(* SpecQ: the immediate space alone (Publish, Consume).                    *)
(***************************************************************************)
QPublish == CallPublish(QJobIds, Priorities) /\ UNCHANGED <<lastOp, lastReady>> /\ UNCHANGED lvars

QConsume == CallConsume /\ UNCHANGED <<lastOp, lastReady>> /\ UNCHANGED lvars

QTick == Tick(QMaxTicks) /\ UNCHANGED <<lastOp, lastReady>> /\ UNCHANGED lvars

QNext == QPublish \/ QConsume \/ QTick

SpecQ == QInit /\ [][QNext]_vars

(***************************************************************************)
(* SpecS: the immediate and the scheduled space, one caller.               *)
(***************************************************************************)
SJobIds == {id \in QJobIds : id <= SMaxJobs}

\* The priorities this caller submits.
SPriorities == {PRIORITY_LOW, PRIORITY_HIGH}

SPublish ==
    CallPublish(SJobIds, SPriorities) /\ lastOp' = "Publish" /\ UNCHANGED lastReady /\ UNCHANGED lvars

SPublishScheduled ==
    /\ CallPublishScheduled(SJobIds, SPriorities)
    /\ lastOp' = "PublishScheduled"
    /\ UNCHANGED lastReady
    /\ UNCHANGED lvars

SProcessScheduledJobs ==
    /\ CallProcessScheduledJobs
    /\ lastOp' = "ProcessScheduledJobs"
    /\ lastReady' = ReadyScheduled(scheduled, now)
    /\ UNCHANGED lvars

SConsume ==
    /\ (CallConsume \/ CallConsumeEmpty)
    /\ lastOp' = "Consume"
    /\ UNCHANGED lastReady
    /\ UNCHANGED lvars

STick == Tick(SMaxTicks) /\ lastOp' = "Tick" /\ UNCHANGED lastReady /\ UNCHANGED lvars

SNext == SPublish \/ SPublishScheduled \/ SProcessScheduledJobs \/ SConsume \/ STick

SpecS == QInit /\ [][SNext]_vars

(***************************************************************************)
(* The worker pool: jobs are created through the service, and each worker   *)
(* polls on its own: it promotes the due scheduled jobs one store command   *)
(* at a time, consumes a job, marks it processing, sends it through the     *)
(* provider chain and records the outcome.  A failed send goes to the       *)
(* retry path the worker is built with: the service path (ProcessEmailJob,  *)
(* RetryFailedJob) or the handler path (ConsumeEmailJob, HandleRetry).      *)
(***************************************************************************)
LJobIds == {id \in QJobIds : id <= LMaxJobs}

Controllers == {"service", "handler"}

Init ==
    /\ now = StartTime
    /\ queue = {}
    /\ scheduled = {}
    /\ consumed = <<>>
    /\ enq = [id \in QJobIds |-> NotEnqueued]
    /\ lastOp = "none"
    /\ lastReady = <<>>
    /\ jobs = [id \in QJobIds |-> NoRow]
    /\ controller \in Controllers
    /\ pc = [w \in Workers |-> "idle"]
    /\ wjob = [w \in Workers |-> NoJob]
    /\ wready = [w \in Workers |-> <<>>]
    /\ sendres = [w \in Workers |-> NoResult]
    /\ hist = [id \in QJobIds |-> NoHistory]
    /\ tracking = [id \in QJobIds |-> "none"]
    /\ render = NoRender

\* The history counters stop at two: the properties tell one from more.
Bump(n) == IF n >= 2 THEN 2 ELSE n + 1

\* The history of sends keeps the first HistMaxSends results.
Sent(h, id, result) ==
    [h EXCEPT ![id].sends = IF Len(@) >= HistMaxSends THEN @
                            ELSE Append(@, IF result.ok THEN "ok" ELSE "fail"),
              ![id].last_error = IF result.ok THEN @ ELSE result.err]

Enqueued(h, id) == [h EXCEPT ![id].enqueues = Bump(@)]

HandedOut(h, id) == [h EXCEPT ![id].handed = Bump(@)]

\* createEmailJobFromRequest: the request's priority and max_retries (when
\* positive) replace the defaults; scheduledAt is optional.
createEmailJobFromRequest(id, recipientEmail, templateID, priority, maxRetries, scheduledAt) ==
    LET made == IF templateID # ""
                THEN SetTemplate(NewEmailJob(id, recipientEmail), templateID)
                ELSE NewEmailJob(id, recipientEmail)
        job == SetPriority(made, priority)
        sized == IF maxRetries > 0 THEN [job EXCEPT !.max_retries = maxRetries]
                 ELSE job
    IN  IF scheduledAt # NoTime THEN SetScheduledAt(sized, scheduledAt) ELSE sized

\* CreateEmailJob with an immediate job: stored, then published.
CreateJob ==
    \E id \in FreshIds(LJobIds), tpl \in TemplateIds, p \in SPriorities,
       m \in 0..LMaxRetry :
        LET job == createEmailJobFromRequest(id, Recipient, tpl, p, m, NoTime)
        IN  /\ jobs' = Create(jobs, job, now)
            /\ queue' = Publish(queue, job, now)
            /\ enq' = [enq EXCEPT ![id] = [kind |-> "direct", at |-> now]]
            /\ hist' = Enqueued(hist, id)
            /\ UNCHANGED <<now, scheduled, consumed, lastOp, lastReady,
                           controller, render, tracking, pc, wjob, wready, sendres>>

\* CreateEmailJob with a job scheduled for a later instant.
CreateScheduledJob ==
    \E id \in FreshIds(LJobIds), tpl \in TemplateIds, p \in SPriorities,
       m \in 0..LMaxRetry, d \in 1..MaxAhead :
        LET job == createEmailJobFromRequest(id, Recipient, tpl, p, m, now + d)
        IN  /\ jobs' = Create(jobs, job, now)
            /\ scheduled' = PublishScheduled(scheduled, job, now + d)
            /\ enq' = [enq EXCEPT ![id] = [kind |-> "scheduled", at |-> now]]
            /\ hist' = Enqueued(hist, id)
            /\ UNCHANGED <<now, queue, consumed, lastOp, lastReady,
                           controller, render, tracking, pc, wjob, wready, sendres>>

\* ProcessScheduledJobs, first command: ZRangeByScore reads the due jobs.
Scan(w) ==
    /\ pc[w] = "idle"
    /\ wready' = [wready EXCEPT ![w] = ReadyScheduled(scheduled, now)]
    /\ pc' = [pc EXCEPT ![w] = IF ReadyScheduled(scheduled, now) = <<>>
                               THEN "consume" ELSE "move"]
    /\ UNCHANGED <<now, queue, scheduled, consumed, enq, lastOp, lastReady,
                   jobs, controller, render, tracking, wjob, sendres, hist>>

\* A move that goes on to the removal without having published the job.
MovePublishNothing(w) ==
    /\ pc[w] = "move"
    /\ pc' = [pc EXCEPT ![w] = "remove"]
    /\ UNCHANGED <<now, queue, scheduled, consumed, enq, lastOp, lastReady,
                   jobs, controller, render, tracking, wjob, wready, sendres, hist>>

\* ProcessScheduledJobs, per job: Publish into the main queue.
MovePublish(w) ==
    /\ pc[w] = "move"
    /\ queue' = Publish(queue, Head(wready[w]), now)
    /\ pc' = [pc EXCEPT ![w] = "remove"]
    /\ UNCHANGED <<now, scheduled, consumed, enq, lastOp, lastReady,
                   jobs, controller, render, tracking, wjob, wready, sendres, hist>>

\* ProcessScheduledJobs, per job: ZRem from the scheduled set; its reply is
\* not looked at.
MoveRemove(w) ==
    /\ pc[w] = "remove"
    /\ scheduled' = ZRem(scheduled, Head(wready[w]))
    /\ wready' = [wready EXCEPT ![w] = Tail(@)]
    /\ pc' = [pc EXCEPT ![w] = IF Tail(wready[w]) = <<>> THEN "consume" ELSE "move"]
    /\ UNCHANGED <<now, queue, consumed, enq, lastOp, lastReady,
                   jobs, controller, render, tracking, wjob, sendres, hist>>

\* A read of the first entry that leaves it in the queue.
ConsumeKeepsEntry(q) == q

\* The queue after ZPopMin took its first entry.
ConsumeRest(q) == q \ {ZMin(q)}

\* Consume by a worker: it holds the job ZPopMin gave it.
WorkerConsume(w) ==
    /\ pc[w] = "consume"
    /\ queue # {}
    /\ queue' = ConsumeRest(queue)
    /\ wjob' = [wjob EXCEPT ![w] = ZMin(queue).member]
    /\ hist' = HandedOut(hist, ZMin(queue).member.id)
    /\ enq' = [enq EXCEPT ![ZMin(queue).member.id].at = NoTime]
    /\ pc' = [pc EXCEPT ![w] = "claim"]
    /\ UNCHANGED <<now, scheduled, consumed, lastOp, lastReady,
                   jobs, controller, render, tracking, wready, sendres>>

\* Consume on an empty queue: ErrQueueEmpty, the worker polls again.
WorkerConsumeEmpty(w) ==
    /\ pc[w] = "consume"
    /\ queue = {}
    /\ pc' = [pc EXCEPT ![w] = "idle"]
    /\ UNCHANGED <<now, queue, scheduled, consumed, enq, lastOp, lastReady,
                   jobs, controller, render, tracking, wjob, wready, sendres, hist>>

\* The worker marks the job processing.
Claim(w) ==
    /\ pc[w] = "claim"
    /\ jobs' = UpdateStatus(jobs, wjob[w].id, "processing", "", NoTime, now)
    /\ pc' = [pc EXCEPT ![w] = "send"]
    /\ UNCHANGED <<now, queue, scheduled, consumed, enq, lastOp, lastReady,
                   controller, render, tracking, wjob, wready, sendres, hist>>

\* The send through the provider chain; each provider answers as it likes.
Send(w) ==
    /\ pc[w] = "send"
    /\ wjob[w].template_id \in Templates
    /\ \E outcome \in Outcomes, err \in ChainErrors :
        LET result == WithError(SendEmail(outcome), err)
        IN  /\ sendres' = [sendres EXCEPT ![w] = result]
            /\ pc' = [pc EXCEPT ![w] = IF result.ok THEN "sent" ELSE "failed"]
            /\ hist' = Sent(hist, wjob[w].id, result)
    /\ UNCHANGED <<now, queue, scheduled, consumed, enq, lastOp, lastReady,
                   jobs, controller, render, tracking, wjob, wready>>

\* The template is not found: the service path marks the job failed at once,
\* the handler path hands the error to HandleRetry.
TemplateFails(w) ==
    /\ pc[w] = "send"
    /\ wjob[w].template_id \notin Templates
    /\ sendres' = [sendres EXCEPT ![w] = TemplateNotFound]
    /\ pc' = [pc EXCEPT ![w] = IF controller = "service" THEN "mark" ELSE "failed"]
    /\ UNCHANGED <<now, queue, scheduled, consumed, enq, lastOp, lastReady,
                   jobs, controller, render, tracking, wjob, wready, hist>>

\* Success: the service path stores "sent" with the send instant and writes
\* no tracking record (createEmailTracking is not called); the handler path
\* stores "completed" and the tracking record "sent".
RecordSuccess(w) ==
    /\ pc[w] = "sent"
    /\ jobs' = UpdateStatus(jobs, wjob[w].id,
                            IF controller = "service" THEN "sent" ELSE "completed",
                            "", now, now)
    /\ pc' = [pc EXCEPT ![w] = "idle"]
    /\ wjob' = [wjob EXCEPT ![w] = NoJob]
    /\ sendres' = [sendres EXCEPT ![w] = NoResult]
    /\ tracking' = IF controller = "service" THEN tracking
                   ELSE [tracking EXCEPT ![wjob[w].id] = "sent"]
    /\ UNCHANGED <<now, queue, scheduled, consumed, enq, lastOp, lastReady,
                   controller, render, wready, hist>>

\* ProcessEmailJob after a failed send: IncrementRetryCount ...
ServiceIncrement(w) ==
    /\ pc[w] = "failed"
    /\ controller = "service"
    /\ jobs' = IncrementRetryCount(jobs, wjob[w].id, now)
    /\ pc' = [pc EXCEPT ![w] = "mark"]
    /\ UNCHANGED <<now, queue, scheduled, consumed, enq, lastOp, lastReady,
                   controller, render, tracking, wjob, wready, sendres, hist>>

\* ... then UpdateStatus(failed) with the error, on both branches.
ServiceMarkFailed(w) ==
    /\ pc[w] = "mark"
    /\ jobs' = UpdateStatus(jobs, wjob[w].id, "failed", sendres[w].err, NoTime, now)
    /\ pc' = [pc EXCEPT ![w] = "idle"]
    /\ wjob' = [wjob EXCEPT ![w] = NoJob]
    /\ sendres' = [sendres EXCEPT ![w] = NoResult]
    /\ UNCHANGED <<now, queue, scheduled, consumed, enq, lastOp, lastReady,
                   controller, render, tracking, wready, hist>>

\* RetryFailedJob: a failed job with retries left goes back to pending, with
\* no delay, and is queued again.
RetryFailedJob(id) ==
    /\ controller = "service"
    /\ jobs[id].status = "failed"
    /\ jobs[id].retry_count < jobs[id].max_retries
    /\ jobs' = UpdateStatus(jobs, id, "pending", "", NoTime, now)
    /\ queue' = Requeue(queue, GetByID(jobs, id), now)
    /\ hist' = Enqueued(hist, id)
    /\ UNCHANGED <<now, scheduled, consumed, enq, lastOp, lastReady,
                   controller, render, tracking, pc, wjob, wready, sendres>>

\* HandleRetry with retries left: ScheduleRetry after the backoff delay ...
HandleRetrySchedule(w) ==
    /\ pc[w] = "failed"
    /\ controller = "handler"
    /\ CanRetry(wjob[w])
    /\ scheduled' = ScheduleRetry(scheduled, IncrementRetry(wjob[w]),
                                  calculateRetryDelay(wjob[w].retry_count), now)
    /\ jobs' = UpdateStatus(jobs, wjob[w].id, "pending", sendres[w].err, NoTime, now)
    /\ hist' = Enqueued(hist, wjob[w].id)
    /\ pc' = [pc EXCEPT ![w] = "count"]
    /\ UNCHANGED <<now, queue, consumed, enq, lastOp, lastReady,
                   controller, render, tracking, wjob, wready, sendres>>

\* ... then updateRetryCount.
HandleRetryCount(w) ==
    /\ pc[w] = "count"
    /\ jobs' = IncrementRetryCount(jobs, wjob[w].id, now)
    /\ pc' = [pc EXCEPT ![w] = "idle"]
    /\ wjob' = [wjob EXCEPT ![w] = NoJob]
    /\ sendres' = [sendres EXCEPT ![w] = NoResult]
    /\ UNCHANGED <<now, queue, scheduled, consumed, enq, lastOp, lastReady,
                   controller, render, tracking, wready, hist>>

\* HandleRetry with no retry left: moveToDeadLetterQueue, the job is failed.
HandleRetryDeadLetter(w) ==
    /\ pc[w] = "failed"
    /\ controller = "handler"
    /\ ~CanRetry(wjob[w])
    /\ jobs' = UpdateStatus(jobs, wjob[w].id, "failed", sendres[w].err, NoTime, now)
    /\ pc' = [pc EXCEPT ![w] = "idle"]
    /\ wjob' = [wjob EXCEPT ![w] = NoJob]
    /\ sendres' = [sendres EXCEPT ![w] = NoResult]
    /\ UNCHANGED <<now, queue, scheduled, consumed, enq, lastOp, lastReady,
                   controller, render, tracking, wready, hist>>

\* A cancel request is honoured only while the job is pending; for any other
\* status it is rejected and changes nothing.
CancelAllowed(status) == status = "pending"

CancelJob(id) ==
    /\ jobs[id].status # "absent"
    /\ hist[id].cancel = "none"
    /\ IF CancelAllowed(jobs[id].status)
       THEN /\ jobs' = UpdateStatus(jobs, id, "cancelled", "", NoTime, now)
            /\ hist' = [hist EXCEPT ![id].cancel = "accepted"]
       ELSE /\ jobs' = jobs
            /\ hist' = [hist EXCEPT ![id].cancel =
                           IF jobs[id].status = "processing"
                           THEN "rejected_processing" ELSE "rejected"]
    /\ UNCHANGED <<now, queue, scheduled, consumed, enq, lastOp, lastReady,
                   controller, render, tracking, pc, wjob, wready, sendres>>

LHorizon == StartTime + LMaxMinutes * TicksPerMinute + LFineTicks

\* Time passes by a tick, or by a minute while a backoff delay runs.
LTick ==
    /\ (now - StartTime) % TicksPerMinute < LFineTicks
    /\ now' = now + 1
    /\ UNCHANGED <<queue, scheduled, consumed, enq, lastOp, lastReady>>
    /\ UNCHANGED lvars

LMinute ==
    /\ now + TicksPerMinute <= LHorizon
    /\ now' = now + TicksPerMinute
    /\ UNCHANGED <<queue, scheduled, consumed, enq, lastOp, lastReady>>
    /\ UNCHANGED lvars

WorkerStep(w) ==
    \/ Scan(w)
    \/ MovePublish(w)
    \/ MoveRemove(w)
    \/ WorkerConsume(w)
    \/ WorkerConsumeEmpty(w)
    \/ Claim(w)
    \/ Send(w)
    \/ TemplateFails(w)
    \/ RecordSuccess(w)
    \/ ServiceIncrement(w)
    \/ ServiceMarkFailed(w)
    \/ HandleRetrySchedule(w)
    \/ HandleRetryCount(w)
    \/ HandleRetryDeadLetter(w)

Next ==
    \/ CreateJob
    \/ CreateScheduledJob
    \/ \E w \in Workers : WorkerStep(w)
    \/ \E id \in LJobIds : RetryFailedJob(id)
    \/ \E id \in LJobIds : CancelJob(id)
    \/ LTick
    \/ LMinute

Spec == Init /\ [][Next]_vars

(***************************************************************************)
(* Properties of the queue.                                                *)
(***************************************************************************)
\* A step in which Consume returns a job, and the job it returns.
Consumes == Len(consumed') = Len(consumed) + 1

Returned == consumed'[Len(consumed')]

DirectAt(id) == IF enq[id].kind = "direct" THEN enq[id].at ELSE NoTime

C6_FifoWithinPriority ==
    [][Consumes =>
          \A e \in queue :
              (/\ DirectAt(Returned.id) # NoTime
               /\ DirectAt(e.member.id) # NoTime
               /\ e.member.priority = Returned.priority)
              => ~(DirectAt(e.member.id) < DirectAt(Returned.id))]_vars

\* C4: after a call of ProcessScheduledJobs every job it read as ready is in
\* the immediate space, once, and not in the scheduled space; a second call
\* right after it changes neither space.
C4_PromoteTwice ==
    [][/\ lastOp' = "ProcessScheduledJobs" =>
              \A i \in 1..Len(lastReady') :
                  /\ Cardinality({e \in queue' : e.member = lastReady'[i]}) = 1
                  /\ lastReady'[i] \notin ZMembers(scheduled')
       /\ (lastOp = "ProcessScheduledJobs" /\ lastOp' = "ProcessScheduledJobs") =>
              (queue' = queue /\ scheduled' = scheduled /\ lastReady' = <<>>)]_vars

C4_Witness ==
    /\ lastOp = "ProcessScheduledJobs"
    /\ lastReady = <<>>
    /\ scheduled = {}
    /\ \E e \in queue : e.member.scheduled_at # NoTime

\* C7 as stated: Consume never returns a job before the instant it was
\* scheduled for.
C7_NeverBeforeScheduledAt ==
    [][Consumes =>
          (Returned.scheduled_at = NoTime \/ now >= Returned.scheduled_at)]_vars

(***************************************************************************)
(* Properties of the job lifecycle.                                        *)
(***************************************************************************)
\* The workers that hold a copy of job id.
Holders(id) == {w \in Workers : wjob[w].id = id}

\* The job was put into the queue's spaces by exactly one enqueue call.
EnqueuedOnce(id, kind) == enq[id].kind = kind /\ hist[id].enqueues = 1

\* C1 as stated: the retry_count stored for a job never exceeds the job's
\* max_retries.
C1_RetryCountWithinMax ==
    \A id \in LJobIds :
        jobs[id].status # "absent" => jobs[id].retry_count <= jobs[id].max_retries

C3_PromotedOnce ==
    \A id \in LJobIds : EnqueuedOnce(id, "scheduled") => hist[id].handed <= 1

\* C8 as stated: a job scheduled for T stays pending while now is before T.
C8_PendingUntilDue ==
    \A id \in LJobIds :
        (EnqueuedOnce(id, "scheduled") /\ now < jobs[id].scheduled_at)
            => jobs[id].status = "pending"

C10_BackoffDelay ==
    [][/\ \A e \in scheduled' \ scheduled :
            e.member.retry_count >= 1 =>
                e.member.scheduled_at >=
                    now + TicksPerMinute * 2^(e.member.retry_count - 1)
       /\ \A id \in LJobIds :
            (/\ jobs[id].status = "failed"
             /\ jobs'[id].status = "pending"
             /\ jobs[id].retry_count >= 1) =>
                now >= jobs[id].updated_at
                         + TicksPerMinute * 2^(jobs[id].retry_count - 1)]_vars

\* The job is at rest: no worker holds a copy and none waits in the queue's
\* spaces.
AtRest(id) ==
    /\ Holders(id) = {}
    /\ \A e \in queue \cup scheduled : e.member.id # id

\* C11 as stated: a job with max_retries 3 whose sends went fail, fail, ok
\* is at the end completed, with an attempt count of 3 and a tracking record
\* of status sent.
C11_ThirdAttemptSucceeds ==
    \A id \in LJobIds :
        (/\ jobs[id].max_retries = 3
         /\ hist[id].sends = <<"fail", "fail", "ok">>
         /\ AtRest(id))
            => /\ jobs[id].status = "completed"
               /\ jobs[id].retry_count = 3
               /\ tracking[id] = "sent"

\* The results of the sends recorded for a job.
SendResults(id) == {hist[id].sends[i] : i \in 1..Len(hist[id].sends)}

\* C12 as stated: a job with max_retries 1 whose provider always fails is
\* failed after exactly two sends, with the last provider error recorded.
C12_FailsAfterTwoAttempts ==
    \A id \in LJobIds :
        (/\ jobs[id].max_retries = 1
         /\ jobs[id].template_id \in Templates
         /\ "ok" \notin SendResults(id)
         /\ jobs[id].status = "failed"
         /\ jobs[id].retry_count >= jobs[id].max_retries
         /\ AtRest(id))
            => /\ hist[id].sends = <<"fail", "fail">>
               /\ jobs[id].error_message = hist[id].last_error

\* C13 as stated: a job whose template does not exist, once failed, has used
\* all its retries: its retry_count equals its max_retries.
C13_TemplateMissingUsesRetries ==
    \A id \in LJobIds :
        (/\ jobs[id].status = "failed"
         /\ jobs[id].template_id \notin Templates
         /\ AtRest(id))
            => jobs[id].retry_count = jobs[id].max_retries

\* C14 as stated: once a cancel request for a pending job is accepted, no
\* later step hands the job to a worker, sends it, or changes its status
\* from cancelled.
C14_CancelledNeverProcessed ==
    [][\A id \in LJobIds :
          hist[id].cancel = "accepted" =>
              /\ hist'[id].handed = hist[id].handed
              /\ hist'[id].sends = hist[id].sends
              /\ jobs'[id].status = "cancelled"]_vars

\* C15 as stated: a job whose cancel request was rejected because it was
\* processing has status completed or failed once it has left the workers
\* and both queue spaces.
C15_CancelWhileProcessing ==
    \A id \in LJobIds :
        (/\ hist[id].cancel = "rejected_processing"
         /\ AtRest(id))
            => jobs[id].status \in {"completed", "failed"}

Terminal == {"completed", "failed", "cancelled"}

\* C16 as stated: no step changes the status of a job whose status is
\* completed, failed or cancelled.
C16_TerminalStatuses ==
    [][\A id \in LJobIds :
          jobs[id].status \in Terminal => jobs'[id].status = jobs[id].status]_vars

\* C17 as stated: a created job with an existing template whose provider
\* accepts every send, once it has been processed and has left the workers
\* and both queue spaces, has status completed and a tracking record with
\* status sent.
C17_ProcessedJobCompleted ==
    \A id \in LJobIds :
        (/\ jobs[id].template_id \in Templates
         /\ SendResults(id) = {"ok"}
         /\ hist[id].cancel = "none"
         /\ AtRest(id))
            => /\ jobs[id].status = "completed"
               /\ tracking[id] = "sent"

(***************************************************************************)
(* The creation entry points, called one after another by one client:      *)
(* SendEmail and CreateEmailJob of the service, and the gRPC CreateEmailJob *)
(* and CreateTrackedEmailJob, which differ only in the IsTracked flag.      *)
(***************************************************************************)
CMaxJobs == 2

CJobIds == 1..CMaxJobs

\* The recipients and templates a request may carry; "" is a missing one.
RequestRecipients == {"", Recipient}

RequestTemplates == {""} \cup TemplateIds \cup StoredTemplates

PriorityNormal == 2

\* SendEmailRequest.Validate: the error, "" for none.
Validate(to, templateName) ==
    IF to = "" THEN "at least one recipient is required"
    ELSE IF templateName = "" THEN "template name is required"
    ELSE ""

\* EmailService.validateJob, for a job of a valid type: the error, "" for none.
validateJob(job) ==
    IF job.recipient_email = "" THEN "email is required"
    ELSE IF job.template_id = "" THEN "template ID is required"
    ELSE ""

\* EmailService.SendEmail: validates, looks the template up by name (this
\* GetByName finds inactive rows too), refuses an inactive one, stores the job.
ServiceSendEmail ==
    \E id \in FreshIds(CJobIds), to \in RequestRecipients,
       templateName \in RequestTemplates, p \in SPriorities :
        /\ IF Validate(to, templateName) # ""
           THEN /\ lastOp' = "invalid request"
                /\ UNCHANGED <<jobs, enq>>
           ELSE IF templateName \notin StoredTemplates
           THEN /\ lastOp' = "failed to get template"
                /\ UNCHANGED <<jobs, enq>>
           ELSE IF ~IsActive(templateName)
           THEN /\ lastOp' = "template is not active"
                /\ UNCHANGED <<jobs, enq>>
           ELSE /\ jobs' = Create(jobs,
                       SetPriority(SetTemplate(NewEmailJob(id, to), templateName), p),
                       now)
                /\ enq' = [enq EXCEPT ![id] = [kind |-> "stored", at |-> now]]
                /\ lastOp' = "SendEmail"
        /\ UNCHANGED <<now, queue, scheduled, consumed, lastReady, controller, render, pc,
                       wjob, wready, sendres, hist, tracking>>

\* EmailService.CreateEmailJob: validates, fills the defaults, stores the job.
ServiceCreateEmailJob ==
    \E id \in FreshIds(CJobIds), email \in RequestRecipients,
       templateID \in RequestTemplates, p \in SPriorities :
        LET job == SetPriority(SetTemplate(NewEmailJob(id, email), templateID), p)
            ranked == IF job.priority = 0 THEN SetPriority(job, PriorityNormal) ELSE job
            sized == IF ranked.max_retries = 0
                     THEN [ranked EXCEPT !.max_retries = DefaultMaxRetries]
                     ELSE ranked
        IN  /\ IF validateJob(job) # ""
               THEN /\ lastOp' = "invalid job"
                    /\ UNCHANGED <<jobs, enq>>
               ELSE /\ jobs' = Create(jobs, sized, now)
                    /\ enq' = [enq EXCEPT ![id] = [kind |-> "stored", at |-> now]]
                    /\ lastOp' = "CreateEmailJob"
            /\ UNCHANGED <<now, queue, scheduled, consumed, lastReady, controller, render,
                           pc, wjob, wready, sendres, hist, tracking>>

\* The instants a request may be scheduled for at instant t: none, a past
\* one, t itself, or a later one.
RequestTimes(t) == {NoTime, t - 1, t} \cup {t + d : d \in 1..MaxAhead}

\* A job's scheduled instant is set and later than t.
ScheduledLater(job, t) == job.scheduled_at # NoTime /\ job.scheduled_at > t

\* PublishJob: a job scheduled for a later instant goes to the scheduled
\* space under that instant, any other job to the immediate space.
PublishJob(q, s, job, t) ==
    IF ScheduledLater(job, t)
    THEN [queue |-> q, scheduled |-> PublishScheduled(s, job, job.scheduled_at)]
    ELSE [queue |-> Publish(q, job, t), scheduled |-> s]

\* Server.CreateEmailJob and Server.CreateTrackedEmailJob: the job is built
\* from the request and published; the reply is a success.
GrpcCreateEmailJob ==
    \E id \in FreshIds(CJobIds), recipientEmail \in RequestRecipients,
       templateID \in RequestTemplates, p \in SPriorities,
       scheduledAt \in RequestTimes(now) :
        LET job == createEmailJobFromRequest(id, recipientEmail, templateID, p, 0,
                                             scheduledAt)
            placed == PublishJob(queue, scheduled, job, now)
        IN  /\ jobs' = Create(jobs, job, now)
            /\ queue' = placed.queue
            /\ scheduled' = placed.scheduled
            /\ enq' = [enq EXCEPT ![id] =
                          [kind |-> IF ScheduledLater(job, now) THEN "scheduled"
                                    ELSE "direct",
                           at |-> now]]
            /\ hist' = Enqueued(hist, id)
            /\ lastOp' = "Email job created successfully"
            /\ UNCHANGED <<now, consumed, lastReady, controller, render, pc,
                           wjob, wready, sendres, tracking>>

CNext == ServiceSendEmail \/ ServiceCreateEmailJob \/ GrpcCreateEmailJob

SpecC == QInit /\ [][CNext]_vars

\* C18 as stated: no stored job and no queued or scheduled job lacks a
\* recipient or a template, whichever creation entry point was called with
\* whatever request.
C18_MalformedNeverStored ==
    /\ \A id \in CJobIds :
           jobs[id].status # "absent" =>
               (jobs[id].email # "" /\ jobs[id].template_id # "")
    /\ \A e \in queue \cup scheduled :
           e.member.recipient_email # "" /\ e.member.template_id # ""

\* Every send of the job failed (and the history holds them all).
EverySendFailed(id) ==
    /\ hist[id].sends # <<>>
    /\ Len(hist[id].sends) < HistMaxSends
    /\ SendResults(id) = {"fail"}

\* C19: a job whose every send failed and whose retry count has reached its
\* maximum, once it has left the workers and both queue spaces, is in the
\* job store with status failed and the non-empty error of its last send.
C19_ExhaustedJobFailed ==
    \A id \in LJobIds :
        (/\ EverySendFailed(id)
         /\ jobs[id].retry_count >= jobs[id].max_retries
         /\ hist[id].cancel = "none"
         /\ AtRest(id))
            => /\ jobs[id].status = "failed"
               /\ jobs[id].error_message = hist[id].last_error
               /\ jobs[id].error_message # ""

(***************************************************************************)
(* SpecW: the immediate space with long waits between the calls: a wait    *)
(* lasts as many seconds as one priority level weighs in the score.        *)
(***************************************************************************)
MaxWaits == 2

WaitTicks == PriorityWeight * TicksPerSecond

WPublish == CallPublish(SJobIds, Priorities) /\ UNCHANGED <<lastOp, lastReady>> /\ UNCHANGED lvars

WConsume == CallConsume /\ UNCHANGED <<lastOp, lastReady>> /\ UNCHANGED lvars

WWait ==
    /\ now < StartTime + MaxWaits * WaitTicks
    /\ now' = now + WaitTicks
    /\ UNCHANGED <<queue, scheduled, consumed, enq, lastOp, lastReady>>
    /\ UNCHANGED lvars

WNext == WPublish \/ WConsume \/ WWait

SpecW == QInit /\ [][WNext]_vars

\* C20 as stated: Consume never returns a job while a job of a higher
\* priority is waiting in the immediate queue, whenever the two were
\* published.
C20_HigherPriorityFirst ==
    [][Consumes => \A e \in queue : e.member.priority <= Returned.priority]_vars

\* The entries of a sorted set that hold a job.
EntriesOf(z, id) == {e \in z : e.member.id = id}

\* A step that enqueues the job through PublishJob.
Enqueues(id) == enq[id].kind = "none" /\ enq'[id].kind \in {"direct", "scheduled"}

Promoted(id) == enq[id].kind = "scheduled"

\* C22 as stated: when Consume returns a job and one of the two was promoted
\* from the scheduled space, no job of a higher priority is waiting in the
\* immediate space, and no job of the same priority that was enqueued
\* earlier.
C22_PromotionKeepsOrder ==
    [][Consumes =>
          \A e \in queue :
              (Promoted(e.member.id) \/ Promoted(Returned.id)) =>
                  /\ e.member.priority <= Returned.priority
                  /\ e.member.priority = Returned.priority =>
                         ~(enq[e.member.id].at < enq[Returned.id].at)]_vars

\* C23 as stated: a job is sent at most max_retries + 1 times.
C23_SendsWithinMax ==
    \A id \in LJobIds :
        jobs[id].status # "absent" => Len(hist[id].sends) <= jobs[id].max_retries + 1

(***************************************************************************)
(* SpecR: one worker that never stops polling, and a caller of the retry   *)
(* operation.  The worker's loop takes its next step whenever it can.      *)
(***************************************************************************)
Poller == "w1"

RNext ==
    \/ CreateJob
    \/ CreateScheduledJob
    \/ WorkerStep(Poller)
    \/ \E id \in LJobIds : RetryFailedJob(id)
    \/ LTick
    \/ LMinute

SpecR == Init /\ [][RNext]_vars /\ WF_vars(WorkerStep(Poller))

\* The job was never created, was delivered by some send, or waits in the
\* scheduled space.
Excused(id) ==
    \/ jobs[id].status = "absent"
    \/ "ok" \in SendResults(id)
    \/ EntriesOf(scheduled, id) # {}

\* C24 as stated: a created job none of whose sends succeeds is, from some
\* instant on, failed for good (unless it is still waiting in the scheduled
\* space).
C24_EventuallyFailedForGood ==
    \A id \in LJobIds : <>[](Excused(id) \/ jobs[id].status = "failed")

\* The worker ends its handling of a failed send of a job that had retries
\* left when it was handed out.
EndsFailedSend(w) ==
    /\ pc[w] \in {"mark", "count"}
    /\ pc'[w] = "idle"
    /\ sendres[w].tried # <<>>
    /\ wjob[w].retry_count < wjob[w].max_retries

\* C25 as stated: when the handling of a failed send with retries left ends,
\* the job's retry count has grown, its status is pending, it has an entry
\* with the grown count in the scheduled space, keyed by the instant it is
\* scheduled for, and none in the immediate space.
C25_FailedSendRescheduled ==
    [][\A w \in Workers :
          EndsFailedSend(w) =>
              LET id == wjob[w].id
              IN  /\ jobs'[id].retry_count > wjob[w].retry_count
                  /\ jobs'[id].status = "pending"
                  /\ \E e \in EntriesOf(scheduled', id) :
                         /\ e.member.retry_count > wjob[w].retry_count
                         /\ e.score = Unix(e.member.scheduled_at)
                  /\ EntriesOf(queue', id) = {}]_vars

\* The step that ends a worker's handling of a job whose template was not found.
EndsTemplateFailure(w) ==
    /\ pc[w] # "idle" /\ pc'[w] = "idle"
    /\ sendres[w].err = TemplateNotFound.err

\* C26 as stated: when the handling of a job whose template is unknown ends,
\* the job is failed with the template error recorded, its retry count is the
\* one it was consumed with, and no provider was tried.
C26_UnknownTemplateFailsAtOnce ==
    [][\A w \in Workers : EndsTemplateFailure(w) =>
          LET id == wjob[w].id
          IN  /\ jobs'[id].status = "failed"
              /\ jobs'[id].error_message = TemplateNotFound.err
              /\ jobs'[id].retry_count = wjob[w].retry_count
              /\ sendres[w].tried = <<>>]_vars

(***************************************************************************)
(* SpecT: the callers of SendEmail and of CreateEmailJob, the latter also   *)
(* with the name of an inactive template, and one polling worker.          *)
(***************************************************************************)
\* CreateEmailJob naming a template whose row is inactive: stored and
\* published like any other job, no template is looked up.
CreateJobInactive ==
    \E id \in FreshIds(LJobIds), p \in SPriorities, m \in 0..LMaxRetry,
       tpl \in {name \in StoredTemplates : ~IsActive(name)} :
        LET job == createEmailJobFromRequest(id, Recipient, tpl, p, m, NoTime)
        IN  /\ jobs' = Create(jobs, job, now)
            /\ queue' = Publish(queue, job, now)
            /\ enq' = [enq EXCEPT ![id] = [kind |-> "direct", at |-> now]]
            /\ hist' = Enqueued(hist, id)
            /\ UNCHANGED <<now, scheduled, consumed, lastOp, lastReady,
                           controller, render, tracking, pc, wjob, wready, sendres>>

TNext == RNext \/ CreateJobInactive \/ ServiceSendEmail

SpecT == Init /\ [][TNext]_vars

\* A template a job may be rendered from: its row exists and is active.
Resolvable(name) == name \in StoredTemplates /\ IsActive(name)

\* C27: a job naming a template that is absent or inactive is never sent: no
\* provider is tried for it, the worker that resolved its template holds the
\* template error, and SendEmail stores no job for such a template.
C27_InactiveNeverResolved ==
    /\ \A id \in QJobIds :
           (jobs[id].status # "absent" /\ ~Resolvable(jobs[id].template_id))
               => hist[id].sends = <<>> /\ enq[id].kind # "stored"
    /\ \A w \in Workers :
           (pc[w] \in {"sent", "failed", "mark", "count"}
            /\ ~Resolvable(wjob[w].template_id))
               => sendres[w].err = TemplateNotFound.err /\ sendres[w].tried = <<>>

C27_Witness ==
    /\ lastOp = "template is not active"
    /\ \E w \in Workers :
           /\ wjob[w].template_id \in StoredTemplates
           /\ ~IsActive(wjob[w].template_id)
           /\ sendres[w].err = TemplateNotFound.err
           /\ pc[w] = "mark"

(***************************************************************************)
(* SpecD: one polling worker on a job store whose calls may fail.  Each    *)
(* store call of ProcessEmailJob has a failing twin: the row is left as it *)
(* was and the code goes on as it does on the call's error.                *)
(***************************************************************************)
\* UpdateStatus(processing) fails: ProcessEmailJob returns the error, the
\* consumed job is handled no further.
ClaimStoreDown(w) ==
    /\ pc[w] = "claim"
    /\ controller = "service"
    /\ pc' = [pc EXCEPT ![w] = "idle"]
    /\ wjob' = [wjob EXCEPT ![w] = NoJob]
    /\ UNCHANGED <<now, queue, scheduled, consumed, enq, lastOp, lastReady,
                   jobs, controller, render, tracking, wready, sendres, hist>>

\* IncrementRetryCount fails: its error is not looked at.
ServiceIncrementStoreDown(w) ==
    /\ pc[w] = "failed"
    /\ controller = "service"
    /\ pc' = [pc EXCEPT ![w] = "mark"]
    /\ UNCHANGED <<now, queue, scheduled, consumed, enq, lastOp, lastReady,
                   jobs, controller, render, tracking, wjob, wready, sendres, hist>>

\* UpdateStatus(failed) fails: its error is not looked at, ProcessEmailJob
\* returns the error of the send or of the template.
ServiceMarkFailedStoreDown(w) ==
    /\ pc[w] = "mark"
    /\ pc' = [pc EXCEPT ![w] = "idle"]
    /\ wjob' = [wjob EXCEPT ![w] = NoJob]
    /\ sendres' = [sendres EXCEPT ![w] = NoResult]
    /\ UNCHANGED <<now, queue, scheduled, consumed, enq, lastOp, lastReady,
                   jobs, controller, render, tracking, wready, hist>>

\* UpdateStatus(sent) fails after the send: ProcessEmailJob returns the error.
RecordSuccessStoreDown(w) ==
    /\ pc[w] = "sent"
    /\ controller = "service"
    /\ pc' = [pc EXCEPT ![w] = "idle"]
    /\ wjob' = [wjob EXCEPT ![w] = NoJob]
    /\ sendres' = [sendres EXCEPT ![w] = NoResult]
    /\ UNCHANGED <<now, queue, scheduled, consumed, enq, lastOp, lastReady,
                   jobs, controller, render, tracking, wready, hist>>

StoreDownStep(w) ==
    \/ ClaimStoreDown(w)
    \/ ServiceIncrementStoreDown(w)
    \/ ServiceMarkFailedStoreDown(w)
    \/ RecordSuccessStoreDown(w)

DNext == RNext \/ StoreDownStep(Poller)

SpecD == Init /\ [][DNext]_vars

\* A job nobody will attempt again: its row says processing, no worker holds
\* it, and it has no entry in either space of the queue.
Stranded(id) ==
    /\ jobs[id].status = "processing"
    /\ \A w \in Workers : wjob[w].id # id
    /\ EntriesOf(queue, id) = {}
    /\ EntriesOf(scheduled, id) = {}

\* C28 as stated: whatever store calls fail during processing, a job that is
\* neither completed nor failed is not lost: a worker holds it, or it has an
\* entry in the queue, or its row is pending.
C28_NotLostOnStoreError == \A id \in LJobIds : ~Stranded(id)

\* The chain as configured, and the errors that name a provider's failure.
ConfiguredOrder == <<"sendgrid", "ses">>

ErrorsNaming(provider) ==
    {"all providers failed: " \o provider, "all providers failed: " \o provider \o ": timeout"}

\* C29: when every provider fails, the send fails, every provider has been
\* tried exactly once in the configured order, and the error returned names
\* the failure of the last provider tried.
C29_AllFailNamesLast ==
    \A w \in Workers :
        (sendres[w].tried # <<>> /\ \A p \in Providers : sendres[w].outcome[p] = "fail")
            => /\ ~sendres[w].ok
               /\ sendres[w].tried = ConfiguredOrder
               /\ sendres[w].err \in ErrorsNaming(ConfiguredOrder[Len(ConfiguredOrder)])
               /\ pc[w] \in {"failed", "mark", "count"}

C29_Witness ==
    \E w \in Workers :
        /\ pc[w] = "failed"
        /\ sendres[w].tried = ConfiguredOrder
        /\ sendres[w].outcome = [p \in Providers |-> "fail"]
        /\ sendres[w].err = "all providers failed: ses: timeout"

\* The status values the claim allows a stored job to have.
StatedStatuses == {"pending", "processing", "completed", "failed", "cancelled"}

\* C30 as stated: the status of every stored job is at all times one of
\* pending, processing, completed, failed, cancelled.
C30_StatusInStatedSet ==
    \A id \in QJobIds : jobs[id].status # "absent" => jobs[id].status \in StatedStatuses

\* C31 as stated, for the one completion stamp a row has (sent_at): a job
\* whose status is completed or failed has a completion timestamp.
C31_FinishedHasTimestamp ==
    \A id \in QJobIds :
        jobs[id].status \in {"completed", "failed"} => jobs[id].sent_at # NoTime

(***************************************************************************)
(* SpecK: one polling worker and the retention sweeps of the job store.    *)
(***************************************************************************)
\* created_at: the insert instant of the row (column default).
CreatedAt(id) == enq[id].at

\* The cutoffs a sweep is called with at instant t.
Cutoffs(t) == {t - 1, t}

\* DELETE FROM email_jobs WHERE <where> AND created_at < cutoff.
DeleteWhere(table, statuses, cutoff) ==
    [id \in DOMAIN table |->
        IF table[id].status \in statuses /\ CreatedAt(id) < cutoff
        THEN NoRow ELSE table[id]]

StoredStatuses == {"pending", "processing", "sent", "completed", "failed", "cancelled"}

\* EmailJobRepository.DeleteOldJobs: sent and failed jobs older than the cutoff.
DeleteOldJobs ==
    \E cutoff \in Cutoffs(now) :
        /\ jobs' = DeleteWhere(jobs, {"sent", "failed"}, cutoff)
        /\ jobs' # jobs
        /\ UNCHANGED <<now, queue, scheduled, consumed, enq, lastOp, lastReady,
                       controller, render, tracking, pc, wjob, wready, sendres, hist>>

\* EmailService.CleanupOldJobs: every job older than the cutoff.
CleanupOldJobs ==
    \E cutoff \in Cutoffs(now) :
        /\ jobs' = DeleteWhere(jobs, StoredStatuses, cutoff)
        /\ jobs' # jobs
        /\ UNCHANGED <<now, queue, scheduled, consumed, enq, lastOp, lastReady,
                       controller, render, tracking, pc, wjob, wready, sendres, hist>>

KNext == RNext \/ DeleteOldJobs \/ CleanupOldJobs

SpecK == Init /\ [][KNext]_vars

Deleted(id) == jobs[id].status # "absent" /\ jobs'[id].status = "absent"

\* C32 as stated: a job is deleted only in a terminal status and only when
\* it was created before the instant of the sweep; a pending or processing
\* job is never deleted.
C32_OnlyTerminalDeleted ==
    [][\A id \in QJobIds : Deleted(id) =>
          /\ jobs[id].status \notin {"pending", "processing"}
          /\ jobs[id].status \in Terminal \cup {"sent"}
          /\ CreatedAt(id) < now]_vars

(***************************************************************************)
(* SpecB: one caller of the whole RedisQueue: Publish, also of a job that  *)
(* is already queued, PublishScheduled, ProcessScheduledJobs, Consume and  *)
(* ConsumeBatch, each leaving its result in lastOp.                        *)
(***************************************************************************)
MaxBatch == 2

BatchSizes == 0..MaxBatch

\* ZPopMin(key, n): the n entries of lowest score, lowest first.
RECURSIVE ZPopMin(_, _)
ZPopMin(z, n) ==
    IF n <= 0 \/ z = {} THEN <<>>
    ELSE <<ZMin(z)>> \o ZPopMin(z \ {ZMin(z)}, n - 1)

\* A ZPopMin that empties the set whatever the count.
BatchRestNone(z, n) == {}

\* What ZPopMin(key, n) leaves in the set.
BatchRest(z, n) == z \ {ZPopMin(z, n)[i] : i \in 1..Len(ZPopMin(z, n))}

\* json.Unmarshal of a member: a member written by Publish carries a job.
Unmarshals(member) == member.id \in QJobIds

\* The jobs ConsumeBatch returns: the popped members that unmarshal, in order.
BatchJobs(popped) ==
    LET good == SelectSeq(popped, LAMBDA e : Unmarshals(e.member))
    IN  [i \in 1..Len(good) |-> good[i].member]

\* Publish of a job whose serialized form is already in the queue.
BPublishAgain ==
    \E e \in queue :
        /\ queue' = Publish(queue, e.member, now)
        /\ lastOp' = "Publish again"
        /\ UNCHANGED <<now, scheduled, consumed, enq, lastReady>>
        /\ UNCHANGED lvars

BConsume ==
    /\ \/ CallConsume /\ lastOp' = "Consume: job"
       \/ CallConsumeEmpty /\ lastOp' = "Consume: ErrQueueEmpty"
    /\ UNCHANGED lastReady
    /\ UNCHANGED lvars

BConsumeBatch ==
    \E n \in BatchSizes :
        LET popped == ZPopMin(queue, n)
            ids == {popped[i].member.id : i \in 1..Len(popped)}
        IN  /\ IF popped = <<>>
               THEN /\ lastOp' = "ConsumeBatch: ErrQueueEmpty"
                    /\ UNCHANGED <<queue, consumed, enq>>
               ELSE /\ queue' = BatchRest(queue, n)
                    /\ consumed' = consumed \o BatchJobs(popped)
                    /\ enq' = [id \in QJobIds |->
                                  IF id \in ids THEN [enq[id] EXCEPT !.at = NoTime]
                                  ELSE enq[id]]
                    /\ lastOp' = "ConsumeBatch: jobs"
            /\ UNCHANGED <<now, scheduled, lastReady>>
            /\ UNCHANGED lvars

BNext ==
    \/ SPublish
    \/ BPublishAgain
    \/ SPublishScheduled
    \/ SProcessScheduledJobs
    \/ BConsume
    \/ BConsumeBatch
    \/ STick

SpecB == QInit /\ [][BNext]_vars

\* C33: a Consume that finds the immediate queue empty returns ErrQueueEmpty
\* and no job, and leaves the immediate and the scheduled space as they were.
C33_EmptyConsume ==
    [][(queue = {} /\ lastOp' \in {"Consume: job", "Consume: ErrQueueEmpty"}) =>
          /\ lastOp' = "Consume: ErrQueueEmpty"
          /\ consumed' = consumed
          /\ queue' = queue
          /\ scheduled' = scheduled]_vars

C33_Witness ==
    /\ lastOp = "Consume: ErrQueueEmpty"
    /\ queue = {}
    /\ scheduled # {}

(***************************************************************************)
(* The template engine: Engine.renderText parses the pattern with Go's     *)
(* text/template and executes it on the variable map.  A pattern is the    *)
(* sequence of its pieces: literal text, an action naming an identifier    *)
(* ({{name}}), an action naming a field of the data ({{.name}}), or an     *)
(* action that is never closed ({{name).                                   *)
(***************************************************************************)
MaxPieces == 2

VariableNames == {"name", "city"}

VariableValues == {"Ana", "Rio"}

\* The functions a pattern may call: the engine's funcMap.
FuncMap == {"formatDate", "formatCurrency"}

Text(str) == [kind |-> "text", str |-> str]

Ident(name) == [kind |-> "ident", str |-> name]

Field(name) == [kind |-> "field", str |-> name]

Unclosed(name) == [kind |-> "unclosed", str |-> name]

Pieces ==
    {Text("Hello "), Text("!")}
        \cup {Ident(n) : n \in VariableNames \cup {"formatDate"}}
        \cup {Field(n) : n \in VariableNames}
        \cup {Unclosed("name")}

Patterns == UNION {[1..n -> Pieces] : n \in 0..MaxPieces}

\* The variable maps: a value for some of the names.
VariableMaps == UNION {[d -> VariableValues] : d \in SUBSET VariableNames}

\* template.Parse: an action must be closed, and a bare identifier is the
\* name of a function, which must be defined.
ParseError(pattern) ==
    IF \E i \in 1..Len(pattern) : pattern[i].kind = "unclosed"
    THEN "failed to parse text template: unclosed action"
    ELSE IF \E i \in 1..Len(pattern) :
                pattern[i].kind = "ident" /\ pattern[i].str \notin FuncMap
    THEN "failed to parse text template: function not defined"
    ELSE ""

\* template.Execute: a function of the funcMap called with no argument fails.
ExecuteError(pattern) ==
    IF \E i \in 1..Len(pattern) : pattern[i].kind = "ident"
    THEN "failed to execute text template: wrong number of args"
    ELSE ""

\* What Execute writes for one piece: the text, or the field's value, or
\* "<no value>" for a key the map does not have.
Written(piece, variables) ==
    IF piece.kind = "text" THEN piece.str
    ELSE IF piece.str \in DOMAIN variables THEN variables[piece.str]
    ELSE "<no value>"

RECURSIVE Execute(_, _)
Execute(pattern, variables) ==
    IF pattern = <<>> THEN ""
    ELSE Written(Head(pattern), variables) \o Execute(Tail(pattern), variables)

\* Engine.renderText: the string rendered and the error, "" for none.
renderText(pattern, variables) ==
    IF ParseError(pattern) # "" THEN [out |-> "", err |-> ParseError(pattern)]
    ELSE IF ExecuteError(pattern) # "" THEN [out |-> "", err |-> ExecuteError(pattern)]
    ELSE [out |-> Execute(pattern, variables), err |-> ""]

(***************************************************************************)
(* SpecE: the engine called once on a pattern and a variable map.          *)
(***************************************************************************)
EInit ==
    /\ now = StartTime
    /\ queue = {}
    /\ scheduled = {}
    /\ consumed = <<>>
    /\ enq = [id \in QJobIds |-> NotEnqueued]
    /\ lastOp = "none"
    /\ lastReady = <<>>
    /\ jobs = [id \in QJobIds |-> NoRow]
    /\ controller = "service"
    /\ pc = [w \in Workers |-> "idle"]
    /\ wjob = [w \in Workers |-> NoJob]
    /\ wready = [w \in Workers |-> <<>>]
    /\ sendres = [w \in Workers |-> NoResult]
    /\ hist = [id \in QJobIds |-> NoHistory]
    /\ tracking = [id \in QJobIds |-> "none"]
    /\ render \in {[NoRender EXCEPT !.pattern = p, !.variables = v] :
                      p \in Patterns, v \in VariableMaps}

RenderText ==
    /\ ~render.done
    /\ render' = [render EXCEPT !.done = TRUE,
                                !.out = renderText(render.pattern, render.variables).out,
                                !.err = renderText(render.pattern, render.variables).err]
    /\ UNCHANGED <<now, queue, scheduled, consumed, enq, lastOp, lastReady, jobs,
                   controller, pc, wjob, wready, sendres, hist, tracking>>

ENext == RenderText

SpecE == EInit /\ [][ENext]_vars

\* The rendering the claim describes: every {{variableName}} placeholder
\* becomes the variable's value, or the empty string when the map has none.
Substituted(piece, variables) ==
    IF piece.kind = "text" THEN piece.str
    ELSE IF piece.str \in DOMAIN variables THEN variables[piece.str]
    ELSE ""

RECURSIVE Substitute(_, _)
Substitute(pattern, variables) ==
    IF pattern = <<>> THEN ""
    ELSE Substituted(Head(pattern), variables) \o Substitute(Tail(pattern), variables)

\* A pattern of literal text and {{variableName}} placeholders.
Placeholders(pattern) ==
    \A i \in 1..Len(pattern) :
        \/ pattern[i].kind = "text"
        \/ pattern[i].kind = "ident" /\ pattern[i].str \in VariableNames

\* C34 as stated: a pattern of text and {{variableName}} placeholders renders
\* without error to the text with every placeholder replaced by the
\* variable's value, or by the empty string when the variable is absent.
C34_RenderSubstitutes ==
    (render.done /\ Placeholders(render.pattern))
        => /\ render.err = ""
           /\ render.out = Substitute(render.pattern, render.variables)

(***************************************************************************)
(* SpecO: a caller creating immediate jobs, each stored and published, and *)
(* the two orders in which they can be read back.                          *)
(***************************************************************************)
OCreateJob ==
    \E id \in FreshIds(SJobIds), tpl \in TemplateIds, p \in SPriorities,
       m \in 0..LMaxRetry :
        LET job == createEmailJobFromRequest(id, Recipient, tpl, p, m, NoTime)
        IN  /\ jobs' = Create(jobs, job, now)
            /\ queue' = Publish(queue, job, now)
            /\ enq' = [enq EXCEPT ![id] = [kind |-> "direct", at |-> now]]
            /\ hist' = Enqueued(hist, id)
            /\ UNCHANGED <<now, scheduled, consumed, lastOp, lastReady,
                           controller, render, tracking, pc, wjob, wready, sendres>>

OTick ==
    /\ now < StartTime + SMaxTicks
    /\ now' = now + 1
    /\ UNCHANGED <<queue, scheduled, consumed, enq, lastOp, lastReady>>
    /\ UNCHANGED lvars

ONext == OCreateJob \/ OTick

SpecO == Init /\ [][ONext]_vars

\* GetPendingJobs: WHERE status = pending AND (scheduled_at IS NULL OR
\* scheduled_at <= now): the ids of the rows selected.
GetPendingJobs(table, t) ==
    {id \in DOMAIN table :
        /\ table[id].status = "pending"
        /\ table[id].scheduled_at = NoTime \/ table[id].scheduled_at <= t}

\* ORDER BY priority ASC, created_at ASC: row a is listed before row b.
PendingBefore(table, a, b) ==
    \/ table[a].priority < table[b].priority
    \/ table[a].priority = table[b].priority /\ CreatedAt(a) < CreatedAt(b)

\* C35 as stated: the order in which Consume hands the queued jobs out is an
\* order in which GetPendingJobs lists them: no two jobs come out of the
\* queue in the order opposite to the store's.
C35_SameReadyOrder ==
    LET order == ZSorted(queue)
    IN  \A i, j \in 1..Len(order) :
            (i < j /\ {order[i].id, order[j].id} \subseteq GetPendingJobs(jobs, now))
                => ~PendingBefore(jobs, order[j].id, order[i].id)

(***************************************************************************)
(* SpecP: two callers of the queue, each running ProcessScheduledJobs one  *)
(* store command at a time and then Consume; a Publish may fail and a run  *)
(* may be interrupted at any command.                                      *)
(***************************************************************************)
\* ProcessScheduledJobs, per job: Publish fails; the loop goes on to the
\* next job and the entry stays in the scheduled set.
MovePublishFails(w) ==
    /\ pc[w] = "move"
    /\ wready' = [wready EXCEPT ![w] = Tail(@)]
    /\ pc' = [pc EXCEPT ![w] = IF Tail(wready[w]) = <<>> THEN "consume" ELSE "move"]
    /\ UNCHANGED <<now, queue, scheduled, consumed, enq, lastOp, lastReady,
                   jobs, controller, render, tracking, wjob, sendres, hist>>

\* The run of ProcessScheduledJobs is interrupted: its caller starts over.
PromotionInterrupted(w) ==
    /\ pc[w] \in {"move", "remove"}
    /\ wready' = [wready EXCEPT ![w] = <<>>]
    /\ pc' = [pc EXCEPT ![w] = "idle"]
    /\ UNCHANGED <<now, queue, scheduled, consumed, enq, lastOp, lastReady,
                   jobs, controller, render, tracking, wjob, sendres, hist>>

\* The most jobs the callers take in one run of the model.
MaxTaken == 2

\* Consume by a caller that only takes the job.
PConsume(w) ==
    /\ pc[w] = "consume"
    /\ queue # {}
    /\ Len(consumed) < MaxTaken
    /\ queue' = ConsumeRest(queue)
    /\ consumed' = Append(consumed, ZMin(queue).member)
    /\ pc' = [pc EXCEPT ![w] = "idle"]
    /\ UNCHANGED <<now, scheduled, enq, lastOp, lastReady,
                   jobs, controller, render, tracking, wjob, wready, sendres, hist>>

\* The caller ends its round without taking a job.
PRoundEnds(w) ==
    /\ pc[w] = "consume"
    /\ pc' = [pc EXCEPT ![w] = "idle"]
    /\ UNCHANGED <<now, queue, scheduled, consumed, enq, lastOp, lastReady,
                   jobs, controller, render, tracking, wjob, wready, sendres, hist>>

PNext ==
    \/ SPublishScheduled
    \/ OTick
    \/ \E w \in Workers :
          \/ Scan(w)
          \/ MovePublish(w)
          \/ MovePublishFails(w)
          \/ MoveRemove(w)
          \/ PromotionInterrupted(w)
          \/ PConsume(w)
          \/ PRoundEnds(w)

SpecP == QInit /\ [][PNext]_vars

\* The ids of the jobs Consume has handed out.
ConsumedIds == {consumed[i].id : i \in 1..Len(consumed)}

\* C36: at every step of the promotion, every job that was scheduled and has
\* not been consumed has an entry in the scheduled or in the immediate space.
C36_PromotionLosesNothing ==
    \A id \in SJobIds :
        (enq[id].kind = "scheduled" /\ id \notin ConsumedIds)
            => EntriesOf(scheduled, id) # {} \/ EntriesOf(queue, id) # {}

\* A due job in the middle of its move: one caller has published it and is
\* about to remove it, after another caller's Publish of it failed.
C36_Witness ==
    \E w \in Workers :
        /\ pc[w] = "remove"
        /\ EntriesOf(queue, Head(wready[w]).id) # {}
        /\ EntriesOf(scheduled, Head(wready[w]).id) # {}
        /\ \E v \in Workers \ {w} : pc[v] \in {"move", "remove"}

(***************************************************************************)
(* SpecJ: the worker of SpecR together with the second retry operation of  *)
(* the service, RetryJob.                                                  *)
(***************************************************************************)
\* RetryJob: GetByID; a job that is not failed gives "job is not in failed
\* status"; otherwise the job is written back as pending with its error
\* message and sent time cleared.  retry_count and max_retries are written
\* back as read and are not compared.
RetryJob(id) ==
    /\ jobs[id].status = "failed"
    /\ jobs' = [jobs EXCEPT ![id].status = "pending",
                            ![id].error_message = "",
                            ![id].sent_at = NoTime,
                            ![id].updated_at = now]
    /\ UNCHANGED <<now, queue, scheduled, consumed, enq, lastOp, lastReady,
                   controller, render, tracking, pc, wjob, wready, sendres, hist>>

JNext == RNext \/ (\E id \in LJobIds : RetryJob(id))

SpecJ == Init /\ [][JNext]_vars

SeededTemplates == {"email_verification"}

\* Create the job, then SendEmail: Validate, GetByName, Create of a second
\* job.  An error of SendEmail is returned with the first job left stored.
SendVerification(templateName, p, failure) ==
    \E to \in RequestRecipients, id \in FreshIds(QJobIds) :
        LET first == Create(jobs,
                 SetPriority(SetTemplate(NewEmailJob(id, to), templateName), p), now)
            stored == [enq EXCEPT ![id] = [kind |-> "stored", at |-> now]]
        IN  /\ Cardinality(Unused(QJobIds)) >= 2
            /\ IF Validate(to, templateName) # "" \/ templateName \notin SeededTemplates
               THEN /\ jobs' = first
                    /\ enq' = stored
                    /\ lastOp' = failure
               ELSE \E second \in Unused(QJobIds) \ {id} :
                    /\ \A o \in Unused(QJobIds) \ {id} : second <= o
                    /\ jobs' = Create(first,
                           SetPriority(SetTemplate(NewEmailJob(second, to), templateName), p),
                           now)
                    /\ enq' = [stored EXCEPT ![second] = [kind |-> "stored", at |-> now]]
                    /\ lastOp' = "verification sent"

JobPriorityHigh == 1

SendVerificationEmail ==
    /\ SendVerification("email_verification", JobPriorityHigh,
                        "failed to send verification email")
    /\ UNCHANGED <<now, queue, scheduled, consumed, lastReady, controller, render,
                   pc, wjob, wready, sendres, hist, tracking>>

SendVerificationReminder ==
    /\ SendVerification("email_verification_reminder", PriorityNormal,
                        "failed to send reminder email")
    /\ UNCHANGED <<now, queue, scheduled, consumed, lastReady, controller, render,
                   pc, wjob, wready, sendres, hist, tracking>>

SpecV == Init /\ [][SendVerificationEmail \/ SendVerificationReminder \/ OTick]_vars

\* The jobs a step adds to the job store.
CreatedJobs == {id \in QJobIds : jobs[id].status = "absent" /\ jobs'[id].status # "absent"}

\* C38: one SendVerificationEmail or SendVerificationReminder request
\* creates exactly one email job in the job store.
C38_OneJobPerRequest ==
    [][(SendVerificationEmail \/ SendVerificationReminder)
          => Cardinality(CreatedJobs) = 1]_vars

\* The members a step takes out of the immediate queue, and the jobs the
\* step hands to its caller.
Removed == ZMembers(queue) \ ZMembers(queue')
Handed == {consumed'[i] : i \in (Len(consumed) + 1)..Len(consumed')}

C40_OneEntryPerMember ==
    [][/\ \A e, f \in queue' : e.member = f.member => e = f
       /\ BPublishAgain =>
              /\ ZCard(queue') = ZCard(queue)
              /\ ZMembers(queue') = ZMembers(queue)
       /\ \A i, j \in 1..Len(consumed') : consumed'[i] = consumed'[j] => i = j]_vars

\* A job published a second time while it was in the queue has a new score,
\* beside another job.
C40_Witness ==
    /\ lastOp = "Publish again"
    /\ ZCard(queue) = 2
    /\ \E e \in queue :
          /\ enq[e.member.id].kind = "direct"
          /\ e.score # PublishScore(enq[e.member.id].at, e.member)
====
